---- MODULE Spec2Model ----
(***************************************************************************)
(* State-machine model of qcm_mana.py, a Streamlit quiz.  Every user       *)
(* interaction (first page load, change of the course selector, click on   *)
(* the restart button, click on the validation button) re-runs main() from *)
(* the top against the persistent st.session_state; one action below is    *)
(* one such run of main().                                                  *)
(*                                                                          *)
(* Python values of different types are compared in the source ("Tous"     *)
(* against course numbers, None against course numbers); they are encoded  *)
(* here as distinct integers so that the comparisons stay well-typed.      *)
(***************************************************************************)
EXTENDS Integers, Sequences, FiniteSets, TLC

VARIABLES
    file,                 \* json.loads(clean) of qcm_mana.json: the parsed records
    GROQ_API_KEY,         \* TRUE iff a credential is configured (truthiness of the key)
    all_questions,        \* the cached result of load_questions()
    initialized,          \* "initialized" in st.session_state
    questions_selection,  \* st.session_state.questions_selection
    current_index,        \* st.session_state.current_index (0-based)
    score,                \* st.session_state.score
    completed,            \* st.session_state.completed
    last_feedback,        \* st.session_state.last_feedback
    last_correct_answer,  \* st.session_state.last_correct_answer
    last_explanation,     \* st.session_state.last_explanation
    choix_cours,          \* value of the sidebar selectbox
    cache,                \* st.cache_data store of get_ai_explanation: key -> text
    err,                  \* exception that ended the last run of main(), or "none"
    lastAction,           \* history: the interaction that triggered the last run
    lastChoix,            \* history: the radio value clicked in the last run, or None
    apiOutcome,           \* history: what get_ai_explanation did in the last run
    submissions,          \* history: validation clicks since the last reset_quiz
    correct               \* history: of those, the clicks with choix = answer

vars == <<file, GROQ_API_KEY, all_questions, initialized, questions_selection,
          current_index, score, completed, last_feedback, last_correct_answer,
          last_explanation, choix_cours, cache, err, lastAction, lastChoix,
          apiOutcome, submissions, correct>>

session == <<questions_selection, current_index, score, completed,
             last_feedback, last_correct_answer, last_explanation>>

-----------------------------------------------------------------------------
(* Bounds of the model.                                                    *)

MaxBank == 2          \* longest question file explored
MaxSubmissions == 3   \* validation clicks after which a run no longer raises
MaxTotal == 10        \* longest file of the sessions followed to the final page

(* Encoding of the Python values compared with course numbers.             *)

Tous == 0             \* the selectbox option "Tous"
None == -1            \* Python's None (dict.get without default, empty radio)
DefaultCourse == 1    \* the default of q.get("course", 1)

-----------------------------------------------------------------------------
(* The records a question file is built from.  Q1 and Q2 are well formed,  *)
(* Q3 has no "course" key, Q4 has a single choice and an answer past the   *)
(* end of its choices, Q6 lacks the "answer" key.                          *)

QuestionPool ==
    { [text |-> "Q1", choices |-> <<"a", "b">>, answer |-> 0, course |-> 1],
      [text |-> "Q2", choices |-> <<"x", "y">>, answer |-> 1, course |-> 2],
      [text |-> "Q3", choices |-> <<"u", "v">>, answer |-> 0],
      [text |-> "Q4", choices |-> <<"z">>, answer |-> 1, course |-> 1],
      [text |-> "Q6", choices |-> <<"a", "b">>, course |-> 2] }

Files == UNION { [1..n -> QuestionPool] : n \in 0..MaxBank }

(* The texts the remote model may answer with, after strip().              *)
Responses == { "explication" }

NoKeyWarning == "IA d'explication non configuree (cle GROQ_API_KEY manquante)"
FeedbackCorrect == "OK Bonne reponse !"
FeedbackWrong == "KO Mauvaise reponse."

-----------------------------------------------------------------------------
(* Python helpers.                                                         *)

\* dict.get(key, default)
Get(q, key, default) == IF key \in DOMAIN q THEN q[key] ELSE default

\* seq[i] raises IndexError unless -len(seq) <= i < len(seq)
IndexInRange(seq, i) == -Len(seq) <= i /\ i < Len(seq)

\* seq[i] for a 0-based, possibly negative, Python index in range
PyIndex(seq, i) == IF i >= 0 THEN seq[i + 1] ELSE seq[Len(seq) + i + 1]

\* a draw with replacement, as random.choices(qs, k=len(qs)) would make
ShufflesWithReplacement(qs) ==
    [1..Len(qs) -> { qs[i] : i \in 1..Len(qs) }]

\* the orders random.shuffle can leave a list in
Shuffles(qs) ==
    { [i \in 1..Len(qs) |-> qs[p[i]]] : p \in Permutations(1..Len(qs)) }

-----------------------------------------------------------------------------
(* load_questions: the assert over the parsed records.                     *)

HasRequiredKeys(q) ==
    "text" \in DOMAIN q /\ "choices" \in DOMAIN q /\ "answer" \in DOMAIN q

LoadRaises(data) == \E i \in 1..Len(data) : ~HasRequiredKeys(data[i])

-----------------------------------------------------------------------------
(* reset_quiz.                                                             *)

\* the questions kept by the course filter, in file order
SelectQuestions(selected_course, bank) ==
    IF selected_course = Tous
    THEN bank
    ELSE SelectSeq(bank, LAMBDA q : Get(q, "course", None) = selected_course)

\* qs = all_questions without list(): the shuffle reorders the bank itself
BankAliased(selected_course, bank, qs) ==
    IF selected_course = Tous THEN qs ELSE bank

\* all_questions once qs is shuffled: list(all_questions) and the list
\* comprehension build a new list, the shuffle in place leaves the bank
BankAfterShuffle(selected_course, bank, qs) == bank

ResetKeepsExplanation(selected_course, bank) ==
    /\ questions_selection' \in Shuffles(SelectQuestions(selected_course, bank))
    /\ all_questions' =
           BankAfterShuffle(selected_course, bank, questions_selection')
    /\ current_index' = 0
    /\ score' = 0
    /\ completed' = FALSE
    /\ last_feedback' = ""
    /\ last_correct_answer' = ""
    /\ last_explanation' = last_explanation
    /\ submissions' = 0
    /\ correct' = 0

reset_quiz(selected_course, bank) ==
    /\ questions_selection' \in Shuffles(SelectQuestions(selected_course, bank))
    /\ all_questions' =
           BankAfterShuffle(selected_course, bank, questions_selection')
    /\ current_index' = 0
    /\ score' = 0
    /\ completed' = FALSE
    /\ last_feedback' = ""
    /\ last_correct_answer' = ""
    /\ last_explanation' = ""
    /\ submissions' = 0
    /\ correct' = 0

-----------------------------------------------------------------------------
(* main: the values derived at each run.                                   *)

\* the options of the sidebar selectbox: "Tous" and the courses of the file
course_options(bank) ==
    {Tous} \cup { Get(bank[i], "course", DefaultCourse) : i \in 1..Len(bank) }

total == Len(questions_selection)

QuizFinishedNever == FALSE

\* the test that ends main() on the final page
QuizFinished == completed \/ current_index >= total

\* the options of st.radio; an empty radio returns None
RadioOptions(choices) ==
    IF Len(choices) = 0 THEN {None} ELSE 0..(Len(choices) - 1)

ScoreAfterAlways(s, choix, correct_index) == s + 1

\* the score after a validation click
ScoreAfter(s, choix, correct_index) ==
    IF choix = correct_index THEN s + 1 ELSE s

FeedbackAfter(choix, correct_index) ==
    IF choix = correct_index THEN FeedbackCorrect ELSE FeedbackWrong

\* the display text numbered from 0, as the index is stored
CorrectAnswerZeroBased(choices, choix, correct_index) ==
    IF choix = correct_index
    THEN ""
    ELSE ToString(correct_index) \o ". " \o PyIndex(choices, correct_index)

\* the display text of the correct choice: 1-based number, dot, choice text
CorrectAnswerAfter(choices, choix, correct_index) ==
    IF choix = correct_index
    THEN ""
    ELSE ToString(correct_index + 1) \o ". " \o PyIndex(choices, correct_index)

\* the key st.cache_data derives from the arguments of get_ai_explanation
CacheKey(question, choix) ==
    <<question.text, question.choices, choix, question.answer>>

-----------------------------------------------------------------------------
(* Initial state: the process has started, no run of main() has happened.  *)

Init ==
    /\ file \in Files
    /\ GROQ_API_KEY \in BOOLEAN
    /\ all_questions = <<>>
    /\ initialized = FALSE
    /\ questions_selection = <<>>
    /\ current_index = 0
    /\ score = 0
    /\ completed = FALSE
    /\ last_feedback = ""
    /\ last_correct_answer = ""
    /\ last_explanation = ""
    /\ choix_cours = Tous
    /\ cache = <<>>
    /\ err = "none"
    /\ lastAction = "none"
    /\ lastChoix = None
    /\ apiOutcome = "none"
    /\ submissions = 0
    /\ correct = 0

-----------------------------------------------------------------------------
(* The first run of main() of a session.                                   *)

FirstRunLoadFails ==
    /\ ~initialized
    /\ LoadRaises(file)
    /\ err' = "AssertionError"
    /\ lastAction' = "run"
    /\ UNCHANGED <<file, GROQ_API_KEY, all_questions, initialized, session,
                   choix_cours, cache, lastChoix, apiOutcome, submissions,
                   correct>>

FirstRunNoQuestion ==
    /\ ~initialized
    /\ ~LoadRaises(file)
    /\ file = <<>>
    /\ all_questions' = file
    /\ err' = "none"
    /\ lastAction' = "run"
    /\ UNCHANGED <<file, GROQ_API_KEY, initialized, session, choix_cours,
                   cache, lastChoix, apiOutcome, submissions, correct>>

FirstRunInitializes ==
    /\ ~initialized
    /\ ~LoadRaises(file)
    /\ file # <<>>
    /\ initialized' = TRUE
    /\ reset_quiz(Tous, file)
    /\ choix_cours' = Tous
    /\ err' = "none"
    /\ lastAction' = "run"
    /\ UNCHANGED <<file, GROQ_API_KEY, cache, lastChoix, apiOutcome>>

FirstRun == FirstRunLoadFails \/ FirstRunNoQuestion \/ FirstRunInitializes

-----------------------------------------------------------------------------
(* A run triggered by a change of the course selectbox.                    *)

SelectCourseResets(c) ==
    /\ initialized
    /\ c \in course_options(all_questions) \ {choix_cours}
    /\ choix_cours' = c
    /\ reset_quiz(c, all_questions)
    /\ err' = "none"
    /\ lastAction' = "select"
    /\ lastChoix' = None
    /\ apiOutcome' = "none"
    /\ UNCHANGED <<file, GROQ_API_KEY, initialized, cache>>

SelectCourse(c) ==
    /\ initialized
    /\ c \in course_options(all_questions) \ {choix_cours}
    /\ choix_cours' = c
    /\ err' = "none"
    /\ lastAction' = "select"
    /\ lastChoix' = None
    /\ apiOutcome' = "none"
    /\ UNCHANGED <<file, GROQ_API_KEY, all_questions, initialized, session,
                   cache, submissions, correct>>

-----------------------------------------------------------------------------
(* A run triggered by a click on the restart button.                       *)

Restart ==
    /\ initialized
    /\ reset_quiz(choix_cours, all_questions)
    /\ err' = "none"
    /\ lastAction' = "restart"
    /\ lastChoix' = None
    /\ apiOutcome' = "none"
    /\ UNCHANGED <<file, GROQ_API_KEY, initialized, choix_cours, cache>>

-----------------------------------------------------------------------------
(* A run triggered by a click on the validation button.  The button is     *)
(* drawn only when main() gets past the empty-selection test and the       *)
(* final-page test.                                                        *)

\* stands for the IndexError of qs[idx] when idx is past the selection
NoQuestion == [text |-> "", choices |-> <<>>, answer |-> 0]

\* question = qs[idx]
CurrentQuestion ==
    IF current_index < total
    THEN questions_selection[current_index + 1]
    ELSE NoQuestion

CanSubmit == initialized /\ total # 0 /\ ~QuizFinished

Matches(choix) == IF choix = CurrentQuestion.answer THEN 1 ELSE 0

\* the assignments of the if/else on choix == correct_index
RecordAnswer(choix) ==
    /\ score' = ScoreAfter(score, choix, CurrentQuestion.answer)
    /\ last_feedback' = FeedbackAfter(choix, CurrentQuestion.answer)
    /\ last_correct_answer' =
           CorrectAnswerAfter(CurrentQuestion.choices, choix,
                              CurrentQuestion.answer)
    /\ lastAction' = "submit"
    /\ lastChoix' = choix
    /\ submissions' = submissions + 1
    /\ correct' = correct + Matches(choix)

\* current_index += 1, then completed = True once the index reaches total
Advance ==
    /\ current_index' = current_index + 1
    /\ completed' = (completed \/ current_index + 1 >= total)

\* choices[correct_index] raises IndexError: the run ends before any write
SubmitIndexError(choix) ==
    /\ CanSubmit
    /\ choix \in RadioOptions(CurrentQuestion.choices)
    /\ ~IndexInRange(CurrentQuestion.choices, CurrentQuestion.answer)
    /\ submissions < MaxSubmissions
    /\ err' = "IndexError"
    /\ lastAction' = "submit"
    /\ lastChoix' = choix
    /\ apiOutcome' = "none"
    /\ submissions' = submissions + 1
    /\ correct' = correct + Matches(choix)
    /\ UNCHANGED <<file, GROQ_API_KEY, all_questions, initialized, session,
                   choix_cours, cache>>

\* the body runs although the arguments are in the store
SubmitCachedCalls(choix) ==
    /\ CanSubmit
    /\ choix \in RadioOptions(CurrentQuestion.choices)
    /\ IndexInRange(CurrentQuestion.choices, CurrentQuestion.answer)
    /\ CacheKey(CurrentQuestion, choix) \in DOMAIN cache
    /\ RecordAnswer(choix)
    /\ last_explanation' = cache[CacheKey(CurrentQuestion, choix)]
    /\ apiOutcome' = IF GROQ_API_KEY THEN "ok" ELSE "nokey"
    /\ Advance
    /\ err' = "none"
    /\ UNCHANGED <<file, GROQ_API_KEY, all_questions, initialized,
                   questions_selection, choix_cours, cache>>

\* st.cache_data finds the arguments in its store: the body does not run
SubmitCached(choix) ==
    /\ CanSubmit
    /\ choix \in RadioOptions(CurrentQuestion.choices)
    /\ IndexInRange(CurrentQuestion.choices, CurrentQuestion.answer)
    /\ CacheKey(CurrentQuestion, choix) \in DOMAIN cache
    /\ RecordAnswer(choix)
    /\ last_explanation' = cache[CacheKey(CurrentQuestion, choix)]
    /\ apiOutcome' = "cached"
    /\ Advance
    /\ err' = "none"
    /\ UNCHANGED <<file, GROQ_API_KEY, all_questions, initialized,
                   questions_selection, choix_cours, cache>>

\* no credential, and the call is attempted all the same
SubmitNoKeyCalls(choix) ==
    /\ CanSubmit
    /\ choix \in RadioOptions(CurrentQuestion.choices)
    /\ IndexInRange(CurrentQuestion.choices, CurrentQuestion.answer)
    /\ CacheKey(CurrentQuestion, choix) \notin DOMAIN cache
    /\ ~GROQ_API_KEY
    /\ submissions < MaxSubmissions
    /\ RecordAnswer(choix)
    /\ apiOutcome' = "fail"
    /\ err' = "APIError"
    /\ UNCHANGED <<file, GROQ_API_KEY, all_questions, initialized,
                   questions_selection, current_index, completed,
                   last_explanation, choix_cours, cache>>

\* no credential: the body returns the fixed warning, which is stored
SubmitNoKey(choix) ==
    /\ CanSubmit
    /\ choix \in RadioOptions(CurrentQuestion.choices)
    /\ IndexInRange(CurrentQuestion.choices, CurrentQuestion.answer)
    /\ CacheKey(CurrentQuestion, choix) \notin DOMAIN cache
    /\ ~GROQ_API_KEY
    /\ RecordAnswer(choix)
    /\ last_explanation' = NoKeyWarning
    /\ cache' = (CacheKey(CurrentQuestion, choix) :> NoKeyWarning) @@ cache
    /\ apiOutcome' = "nokey"
    /\ Advance
    /\ err' = "none"
    /\ UNCHANGED <<file, GROQ_API_KEY, all_questions, initialized,
                   questions_selection, choix_cours>>

\* client.responses.create returns: the stripped text is stored and shown
SubmitExplained(choix, text) ==
    /\ CanSubmit
    /\ choix \in RadioOptions(CurrentQuestion.choices)
    /\ IndexInRange(CurrentQuestion.choices, CurrentQuestion.answer)
    /\ CacheKey(CurrentQuestion, choix) \notin DOMAIN cache
    /\ GROQ_API_KEY
    /\ RecordAnswer(choix)
    /\ last_explanation' = text
    /\ cache' = (CacheKey(CurrentQuestion, choix) :> text) @@ cache
    /\ apiOutcome' = "ok"
    /\ Advance
    /\ err' = "none"
    /\ UNCHANGED <<file, GROQ_API_KEY, all_questions, initialized,
                   questions_selection, choix_cours>>

\* client.responses.create raises: nothing catches it, the run ends there
SubmitApiFails(choix) ==
    /\ CanSubmit
    /\ choix \in RadioOptions(CurrentQuestion.choices)
    /\ IndexInRange(CurrentQuestion.choices, CurrentQuestion.answer)
    /\ CacheKey(CurrentQuestion, choix) \notin DOMAIN cache
    /\ GROQ_API_KEY
    /\ submissions < MaxSubmissions
    /\ RecordAnswer(choix)
    /\ apiOutcome' = "fail"
    /\ err' = "APIError"
    /\ UNCHANGED <<file, GROQ_API_KEY, all_questions, initialized,
                   questions_selection, current_index, completed,
                   last_explanation, choix_cours, cache>>

Submit(choix) ==
    \/ SubmitIndexError(choix)
    \/ SubmitCached(choix)
    \/ SubmitNoKey(choix)
    \/ \E text \in Responses : SubmitExplained(choix, text)
    \/ SubmitApiFails(choix)

-----------------------------------------------------------------------------

Courses == {Tous} \cup { Get(q, "course", DefaultCourse) : q \in QuestionPool }
Choix == {None} \cup UNION { RadioOptions(Get(q, "choices", <<>>)) : q \in QuestionPool }

Next ==
    \/ FirstRun
    \/ \E c \in Courses : SelectCourse(c)
    \/ Restart
    \/ \E choix \in Choix : Submit(choix)

Spec == Init /\ [][Next]_vars

-----------------------------------------------------------------------------
(* The page a run of main() ends on, as a function of the session state.   *)
(* pourcentage = score / total * 100 is a float; for every total up to     *)
(* 2000 and score up to total its comparisons with 100 and 70 give the     *)
(* same result as the exact comparisons of score * 100 below.              *)

\* pourcentage >= 70 written as a strict comparison
PercentAbove70(s, t) == s * 100 > 70 * t

\* pourcentage == 100
PercentIs100(s, t) == s * 100 = 100 * t

\* pourcentage >= 70
PercentAtLeast70(s, t) == s * 100 >= 70 * t

\* the branch of the if/elif/else of the final page
Tier(s, t) ==
    IF PercentIs100(s, t) THEN "perfect"
    ELSE IF PercentAtLeast70(s, t) THEN "good"
    ELSE "retry"

\* the page without the test on an empty selection
PageWithoutEmptyTest ==
    IF ~initialized THEN "none"
    ELSE IF QuizFinished THEN "final"
    ELSE "question"

\* what main() draws below the sidebar on a run that raises nothing
Page ==
    IF ~initialized THEN "none"
    ELSE IF total = 0 THEN "empty"
    ELSE IF QuizFinished THEN "final"
    ELSE "question"

-----------------------------------------------------------------------------
(* Sessions over longer files, to reach the final page with totals up to   *)
(* MaxTotal.  The session starts right after its initialization, with the  *)
(* selection in file order (one of the orders the shuffle can leave), and  *)
(* the user answers and moves the course selector without restarting.      *)

GoodQuestion == CHOOSE q \in QuestionPool : q.text = "Q1"
BadQuestion == CHOOSE q \in QuestionPool : q.text = "Q4"

TierFiles ==
    { [i \in 1..n |-> GoodQuestion] : n \in 1..MaxTotal }
        \cup { <<GoodQuestion, BadQuestion>> }

InitTier ==
    /\ file \in TierFiles
    /\ GROQ_API_KEY \in BOOLEAN
    /\ all_questions = file
    /\ initialized = TRUE
    /\ questions_selection = file
    /\ current_index = 0
    /\ score = 0
    /\ completed = FALSE
    /\ last_feedback = ""
    /\ last_correct_answer = ""
    /\ last_explanation = ""
    /\ choix_cours = Tous
    /\ cache = <<>>
    /\ err = "none"
    /\ lastAction = "run"
    /\ lastChoix = None
    /\ apiOutcome = "none"
    /\ submissions = 0
    /\ correct = 0

NextTier ==
    \/ \E c \in Courses : SelectCourse(c)
    \/ \E choix \in Choix : Submit(choix)

SpecTier == InitTier /\ [][NextTier]_vars

-----------------------------------------------------------------------------
(* Properties.                                                             *)

\* number of positions of seq that hold q
Count(seq, q) == Cardinality({ i \in 1..Len(seq) : seq[i] = q })

\* q belongs to the course selected by c
InCourse(q, c) == c = Tous \/ ("course" \in DOMAIN q /\ q.course = c)

\* C1: on every validation click on a question of the selection, score
\* grows by exactly 1 if the clicked index is the answer index of the
\* question at the current position, and is unchanged otherwise.
C1_ScoreIffCorrect ==
    [][lastAction' = "submit" =>
          /\ current_index < total
          /\ score' = IF lastChoix' = questions_selection[current_index + 1].answer
                      THEN score + 1
                      ELSE score]_vars

\* a wrong answer has just been recorded after an earlier right one
C1_Witness ==
    lastAction = "submit" /\ last_feedback = FeedbackWrong /\ score = 1

\* C2: when the remote explanation call fails during a validation, no
\* exception ends the run, last_explanation holds a warning text, and
\* score and position are what a successful call would have left.
C2_ExplanationFailureContained ==
    [][(lastAction' = "submit" /\ apiOutcome' = "fail") =>
          /\ err' = "none"
          /\ last_explanation' \notin ({""} \cup Responses)
          /\ current_index' = current_index + 1
          /\ score' = IF lastChoix' = questions_selection[current_index + 1].answer
                      THEN score + 1
                      ELSE score]_vars

\* C3: in every session state, completed is true exactly when the position
\* equals the length of the selection.
C3_CompletedIffAtEnd ==
    initialized => (completed <=> current_index = total)

\* C4: between two resets the position equals the number of validation
\* clicks since the last reset.
C4_PositionCountsSubmissions ==
    initialized => current_index = submissions

\* C5: right after a reset the selection is a permutation of the questions
\* of the file that belong to the selected course, all of them for "Tous":
\* every record occurs as often in the selection as among those questions.
C5_SelectionIsPermutation ==
    (initialized /\ lastAction \in {"run", "restart"}) =>
        /\ choix_cours = Tous => Len(questions_selection) = Len(all_questions)
        /\ \A q \in QuestionPool :
              Count(questions_selection, q) =
                  IF InCourse(q, choix_cours) THEN Count(all_questions, q) ELSE 0

\* a restart on a course has kept two questions, in another order
C5_Witness ==
    /\ lastAction = "restart"
    /\ choix_cours # Tous
    /\ Len(questions_selection) = 2
    /\ questions_selection # all_questions

\* C6: every question load_questions returns has at least two choices and
\* an answer index inside its choices.
C6_LoadedQuestionsValid ==
    \A i \in 1..Len(all_questions) :
        /\ Len(all_questions[i].choices) >= 2
        /\ 0 <= all_questions[i].answer
        /\ all_questions[i].answer < Len(all_questions[i].choices)

\* C7 as stated: any change of the course selector resets the session; the
\* selection then holds only questions of the new course, position and
\* score are 0.
C7_ResetOnCourseChange ==
    [][choix_cours' # choix_cours =>
          /\ current_index' = 0
          /\ score' = 0
          /\ \A i \in 1..Len(questions_selection') :
                InCourse(questions_selection'[i], choix_cours')]_vars

\* C7 amended: a change of the course selector alone leaves the session
\* (selection, position, score, completion, feedback) as it was; only a
\* restart click resets it, and then the selection holds only questions of
\* the course selected at that time, position and score being 0.
C7_ResetOnlyOnRestart ==
    [][/\ choix_cours' # choix_cours => UNCHANGED session
       /\ lastAction' = "restart" =>
             /\ current_index' = 0
             /\ score' = 0
             /\ \A i \in 1..Len(questions_selection') :
                   InCourse(questions_selection'[i], choix_cours')]_vars

\* the selector has moved to a course while an answered session of other
\* questions stays in place
C7_Witness ==
    /\ lastAction = "select"
    /\ choix_cours # Tous
    /\ current_index > 0
    /\ \E i \in 1..Len(questions_selection) :
          ~InCourse(questions_selection[i], choix_cours)

\* C8: after a restart position and score are 0, completed is false and
\* the three feedback fields are empty.
C8_RestartClears ==
    lastAction = "restart" =>
        /\ current_index = 0
        /\ score = 0
        /\ completed = FALSE
        /\ last_feedback = ""
        /\ last_correct_answer = ""
        /\ last_explanation = ""

\* a restart after a session in which an explanation had been shown
C8_Witness ==
    lastAction = "restart" /\ DOMAIN cache # {} /\ total > 0

\* C9: from a completed session no validation click is possible, and every
\* run other than a restart leaves completed, score, position and
\* selection as they are.
C9_CompletedIsStable ==
    [][completed =>
          /\ lastAction' # "submit"
          /\ lastAction' # "restart" =>
                /\ completed'
                /\ score' = score
                /\ current_index' = current_index
                /\ questions_selection' = questions_selection]_vars

\* a run other than a restart has happened on the final page
C9_Witness ==
    completed /\ lastAction = "select" /\ score > 0

\* C10: a session over a selection of N questions is completed after
\* exactly N validation clicks, with a score equal to the number of those
\* clicks whose index matched the answer.
C10_CompletedAfterNSubmissions ==
    (initialized /\ completed) => (submissions = total /\ score = correct)

\* C11: on the final page of a session of total >= 1 questions with a
\* score in 0..total, the tier is perfect when score = total, good when
\* 0.70 * total <= score < total, and retry when score < 0.70 * total.
C11_Tiers ==
    (Page = "final" /\ total >= 1 /\ score \in 0..total) =>
        /\ score = total => Tier(score, total) = "perfect"
        /\ (7 * total <= 10 * score /\ score < total) =>
              Tier(score, total) = "good"
        /\ 10 * score < 7 * total => Tier(score, total) = "retry"

\* the final page of ten questions with seven right answers
C11_Witness ==
    Page = "final" /\ total = 10 /\ score = 7 /\ Tier(score, total) = "good"

\* C12: with no credential configured the explanation is the same fixed
\* warning whatever the question, its choices and the two indices, and no
\* outbound call is made.
C12_NoKeyFixedWarning ==
    ~GROQ_API_KEY =>
        /\ apiOutcome \notin {"ok", "fail"}
        /\ \A k \in DOMAIN cache : cache[k] = NoKeyWarning
        /\ (lastAction = "submit" /\ err = "none") =>
              last_explanation = NoKeyWarning

\* without credential, two different argument tuples have been explained
C12_Witness ==
    /\ ~GROQ_API_KEY
    /\ lastAction = "submit"
    /\ apiOutcome = "nokey"
    /\ last_explanation = NoKeyWarning
    /\ Cardinality(DOMAIN cache) >= 2

\* C13 as stated, for questions whose answer index is inside their
\* choices: with a credential configured every validation click makes one
\* outbound call, also when the same question is answered with the same
\* choice again after a restart.
C13_OneCallPerSubmission ==
    [][(GROQ_API_KEY /\ lastAction' = "submit" /\ err' # "IndexError") =>
          apiOutcome' \in {"ok", "fail"}]_vars

\* C13 amended: with a credential configured a validation click makes at
\* most one outbound call and never retries; it makes one exactly when the
\* run reaches get_ai_explanation with a tuple (question text, choices,
\* chosen index, answer index) that no earlier call of this process has
\* answered, and none when the tuple is in the st.cache_data store (the
\* stored text is shown), as when the same question is answered with the
\* same choice again after a restart.
C13_OneCallUnlessCached ==
    [][(GROQ_API_KEY /\ lastAction' = "submit") =>
          /\ current_index < total
          /\ apiOutcome' \in {"ok", "fail"} <=>
                /\ IndexInRange(questions_selection[current_index + 1].choices,
                                questions_selection[current_index + 1].answer)
                /\ <<questions_selection[current_index + 1].text,
                     questions_selection[current_index + 1].choices,
                     lastChoix',
                     questions_selection[current_index + 1].answer>>
                       \notin DOMAIN cache
          /\ apiOutcome' = "fail" => err' = "APIError"]_vars

\* the first validation after a reset is served from the store
C13_Witness ==
    /\ GROQ_API_KEY
    /\ lastAction = "submit"
    /\ apiOutcome = "cached"
    /\ submissions = 1

\* C14: in every session state 0 <= score <= position <= len(selection),
\* whatever the resets, validation clicks and explanation-call outcomes.
C14_ScoreBounded ==
    initialized =>
        /\ 0 <= score
        /\ score <= current_index
        /\ current_index <= total

\* C15: once loaded the question bank keeps its content and its order
\* through every reset and validation click (the shuffle acts on a copy),
\* and a validation click leaves the selection as it is.
C15_BankReadOnly ==
    [][initialized =>
          /\ all_questions' = all_questions
          /\ lastAction' = "submit" =>
                questions_selection' = questions_selection]_vars

\* an answer has been validated in a selection of the whole bank whose
\* order is not the order of the bank
C15_Witness ==
    /\ lastAction = "submit"
    /\ submissions = 1
    /\ current_index = 1
    /\ Len(questions_selection) = Len(all_questions)
    /\ questions_selection # all_questions

C17_OptionsPartitionBank ==
    initialized =>
        /\ \A i \in 1..Len(all_questions) :
              Cardinality({ c \in course_options(all_questions) \ {Tous} :
                              \E j \in 1..Len(SelectQuestions(c, all_questions)) :
                                 SelectQuestions(c, all_questions)[j]
                                     = all_questions[i] }) = 1
        /\ (lastAction = "restart" /\ choix_cours # Tous) => total > 0

\* C18: the final page, where score / total is computed, is drawn only
\* with total >= 1: a session whose selection is empty is neither on the
\* final page nor completed, and no validation click is possible in it.
C18_NoFinalPageOnEmptySelection ==
    /\ Page = "final" => total >= 1
    /\ (initialized /\ total = 0) =>
          /\ Page = "empty"
          /\ ~CanSubmit
          /\ ~completed
          /\ lastAction # "submit"

\* a restart has produced an empty selection
C18_Witness ==
    /\ initialized
    /\ lastAction = "restart"
    /\ total = 0
    /\ current_index >= total
    /\ Page = "empty"

====
